---- MODULE Spec2Model ----
(***************************************************************************)
(* Model of the ebay-api-test command line tool.                           *)
(*                                                                         *)
(*   src/src/ebay_api.rs  SearchConfig::new  and  post_query               *)
(*   src/src/main.rs      read_config        and  main                     *)
(*                                                                         *)
(* Text that the program concatenates, validates, parses or prints is a    *)
(* sequence of bytes (ASCII codes); the comment beside a literal sequence  *)
(* gives its text.  Names that the program only passes along (the endpoint *)
(* URL, header names, the application identifiers) are TLA+ strings.       *)
(***************************************************************************)
EXTENDS Integers, Sequences, FiniteSets, TLC

(***************************************************************************)
(* Bounds of the model.                                                    *)
(***************************************************************************)
\* longest access token read from config.toml
MaxTokenLen == 2
\* longest response body of the exhaustive body set (longer ones are samples)
MaxBodyLen == 2

(***************************************************************************)
(* Byte strings.                                                           *)
(***************************************************************************)
RECURSIVE SeqsUpTo(_, _)
SeqsUpTo(S, n) ==
    IF n = 0 THEN {<< >>}
    ELSE LET shorter == SeqsUpTo(S, n - 1)
         IN  shorter \cup {Append(s, b) : s \in {t \in shorter : Len(t) = n - 1}, b \in S}

\* s from its i-th byte on
Drop(s, i) == SubSeq(s, i, Len(s))

StartsWith(s, p) == Len(s) >= Len(p) /\ SubSeq(s, 1, Len(p)) = p

Contains(s, p) ==
    \E i \in 1..(Len(s) - Len(p) + 1) : SubSeq(s, i, i + Len(p) - 1) = p

\* bytewise order of two byte strings (the order of Rust's String)
RECURSIVE StrLess(_, _)
StrLess(a, b) ==
    IF b = << >> THEN FALSE
    ELSE IF a = << >> THEN TRUE
    ELSE IF a[1] # b[1] THEN a[1] < b[1]
    ELSE StrLess(Tail(a), Tail(b))

\* decimal text of a natural number (Display of an unsigned integer)
RECURSIVE Dec(_)
Dec(n) == IF n < 10 THEN <<48 + n>> ELSE Append(Dec(n \div 10), 48 + (n % 10))

(***************************************************************************)
(* serde_json::Value, serde_json::from_str and serde_json::to_string_pretty *)
(* as post_query uses them (ebay_api.rs lines 150-153).                    *)
(*                                                                         *)
(* A value is a record of one shape: t is its kind, n the number (or the   *)
(* truth value of a bool), s the text of a string, a the elements of an    *)
(* array, o the members of an object as a sequence of [k, v] sorted by key *)
(* with no key twice (serde_json::Map is a BTreeMap by default).           *)
(* Covered input: whitespace, null, true, false, unsigned integers,        *)
(* strings without escape sequences, arrays and objects.  Bytes that start *)
(* what is not covered ('-', '.', 'e', '\') occur in no body of the model. *)
(***************************************************************************)
JValue(t, n, s, a, o) == [t |-> t, n |-> n, s |-> s, a |-> a, o |-> o]
JNull      == JValue("null", 0, << >>, << >>, << >>)
JBool(b)   == JValue("bool", IF b THEN 1 ELSE 0, << >>, << >>, << >>)
JNumber(n) == JValue("number", n, << >>, << >>, << >>)
JString(s) == JValue("string", 0, s, << >>, << >>)
JArray(a)  == JValue("array", 0, << >>, a, << >>)
JObject(o) == JValue("object", 0, << >>, << >>, o)

\* Map::insert: the members stay sorted by key, a key already there is replaced
RECURSIVE MapInsert(_, _, _)
MapInsert(o, k, v) ==
    IF o = << >> THEN << [k |-> k, v |-> v] >>
    ELSE IF o[1].k = k THEN << [k |-> k, v |-> v] >> \o Tail(o)
    ELSE IF StrLess(k, o[1].k) THEN << [k |-> k, v |-> v] >> \o o
    ELSE << o[1] >> \o MapInsert(Tail(o), k, v)

\* result of a parsing step: the value and the index of the next unread byte
ParseOk(v, pos) == [ok |-> TRUE, v |-> v, pos |-> pos]
ParseErr == [ok |-> FALSE, v |-> JNull, pos |-> 0]

IsWhitespace(b) == b \in {32, 10, 9, 13}
IsDigit(b) == b >= 48 /\ b <= 57

RECURSIVE SkipWhitespace(_, _)
SkipWhitespace(s, i) ==
    IF i <= Len(s) /\ IsWhitespace(s[i]) THEN SkipWhitespace(s, i + 1) ELSE i

\* the bytes of a string up to its closing quote; i is the byte after the opening quote
RECURSIVE ParseStr(_, _, _)
ParseStr(s, i, acc) ==
    IF i > Len(s) THEN ParseErr                          \* EofWhileParsingString
    ELSE IF s[i] = 34 THEN ParseOk(JString(acc), i + 1)
    ELSE IF s[i] < 32 \/ s[i] = 92 THEN ParseErr         \* control character; escapes not covered
    ELSE ParseStr(s, i + 1, Append(acc, s[i]))

\* the digits of an integer whose first digit is not 0
RECURSIVE ParseDigits(_, _, _)
ParseDigits(s, i, acc) ==
    IF i <= Len(s) /\ IsDigit(s[i]) THEN ParseDigits(s, i + 1, acc * 10 + (s[i] - 48))
    ELSE ParseOk(JNumber(acc), i)

ParseNumber(s, i) ==
    IF s[i] = 48
    THEN IF i + 1 <= Len(s) /\ IsDigit(s[i + 1]) THEN ParseErr   \* InvalidNumber: leading zero
         ELSE ParseOk(JNumber(0), i + 1)
    ELSE ParseDigits(s, i, 0)

\* null, true, false: the bytes after the first must spell the rest of the word
ParseIdent(s, i, word, v) ==
    IF StartsWith(Drop(s, i), word) THEN ParseOk(v, i + Len(word)) ELSE ParseErr

RECURSIVE ParseValue(_, _)
RECURSIVE ParseElems(_, _, _)
RECURSIVE ParseMembers(_, _, _)

ParseValue(s, i0) ==
    LET i == SkipWhitespace(s, i0)
    IN  IF i > Len(s) THEN ParseErr                       \* EofWhileParsingValue
        ELSE CASE s[i] = 34  -> ParseStr(s, i + 1, << >>)
               [] s[i] = 91  -> LET j == SkipWhitespace(s, i + 1)
                                IN  IF j <= Len(s) /\ s[j] = 93
                                    THEN ParseOk(JArray(<< >>), j + 1)
                                    ELSE ParseElems(s, i + 1, << >>)
               [] s[i] = 123 -> LET j == SkipWhitespace(s, i + 1)
                                IN  IF j <= Len(s) /\ s[j] = 125
                                    THEN ParseOk(JObject(<< >>), j + 1)
                                    ELSE ParseMembers(s, i + 1, << >>)
               [] s[i] = 110 -> ParseIdent(s, i, <<110, 117, 108, 108>>, JNull)            \* null
               [] s[i] = 116 -> ParseIdent(s, i, <<116, 114, 117, 101>>, JBool(TRUE))      \* true
               [] s[i] = 102 -> ParseIdent(s, i, <<102, 97, 108, 115, 101>>, JBool(FALSE)) \* false
               [] IsDigit(s[i]) -> ParseNumber(s, i)
               [] OTHER -> ParseErr                       \* ExpectedSomeValue

\* the elements of an array after '[' or ',': a value, then ',' or ']'
ParseElems(s, i, acc) ==
    LET r == ParseValue(s, i)
        j == SkipWhitespace(s, r.pos)
    IN  IF ~r.ok THEN ParseErr
        ELSE IF j > Len(s) THEN ParseErr                  \* EofWhileParsingList
        ELSE IF s[j] = 44 THEN ParseElems(s, j + 1, Append(acc, r.v))
        ELSE IF s[j] = 93 THEN ParseOk(JArray(Append(acc, r.v)), j + 1)
        ELSE ParseErr

\* the members of an object after '{' or ',': "key", ':', a value, then ',' or '}'
ParseMembers(s, i, acc) ==
    LET j == SkipWhitespace(s, i)
        k == IF j <= Len(s) /\ s[j] = 34 THEN ParseStr(s, j + 1, << >>) ELSE ParseErr
        c == SkipWhitespace(s, k.pos)
        r == IF k.ok /\ c <= Len(s) /\ s[c] = 58 THEN ParseValue(s, c + 1) ELSE ParseErr
        e == SkipWhitespace(s, r.pos)
    IN  IF ~r.ok THEN ParseErr                            \* KeyMustBeAString, ExpectedColon, ...
        ELSE IF e > Len(s) THEN ParseErr                  \* EofWhileParsingObject
        ELSE IF s[e] = 44 THEN ParseMembers(s, e + 1, MapInsert(acc, k.v.s, r.v))
        ELSE IF s[e] = 125 THEN ParseOk(JObject(MapInsert(acc, k.v.s, r.v)), e + 1)
        ELSE ParseErr

\* serde_json::from_str: one value, then nothing but whitespace
FromStr(s) ==
    LET r == ParseValue(s, 1)
    IN  IF r.ok /\ SkipWhitespace(s, r.pos) > Len(s) THEN r ELSE ParseErr

\* two spaces for each level of nesting
RECURSIVE Indent(_)
Indent(level) == IF level = 0 THEN << >> ELSE <<32, 32>> \o Indent(level - 1)

RECURSIVE PrettyValue(_, _)
RECURSIVE PrettyElems(_, _, _)
RECURSIVE PrettyMembers(_, _, _)

\* PrettyElems with the separator between elements left out
PrettyElemsNoComma(a, level, first) ==
    IF a = << >> THEN << >>
    ELSE <<10>> \o Indent(level)
         \o PrettyValue(a[1], level) \o PrettyElems(Tail(a), level, FALSE)

\* PrettyFormatter: each element on a line of its own, ",\n" between elements
PrettyElems(a, level, first) ==
    IF a = << >> THEN << >>
    ELSE (IF first THEN <<10>> ELSE <<44, 10>>) \o Indent(level)
         \o PrettyValue(a[1], level) \o PrettyElems(Tail(a), level, FALSE)

\* each member as "key": value
PrettyMembers(o, level, first) ==
    IF o = << >> THEN << >>
    ELSE (IF first THEN <<10>> ELSE <<44, 10>>) \o Indent(level)
         \o <<34>> \o o[1].k \o <<34, 58, 32>>
         \o PrettyValue(o[1].v, level) \o PrettyMembers(Tail(o), level, FALSE)

PrettyValue(v, level) ==
    CASE v.t = "null"   -> <<110, 117, 108, 108>>
      [] v.t = "bool"   -> IF v.n = 1 THEN <<116, 114, 117, 101>> ELSE <<102, 97, 108, 115, 101>>
      [] v.t = "number" -> Dec(v.n)
      [] v.t = "string" -> <<34>> \o v.s \o <<34>>
      [] v.t = "array"  -> IF v.a = << >> THEN <<91, 93>>
                           ELSE <<91>> \o PrettyElems(v.a, level + 1, TRUE)
                                \o <<10>> \o Indent(level) \o <<93>>
      [] v.t = "object" -> IF v.o = << >> THEN <<123, 125>>
                           ELSE <<123>> \o PrettyMembers(v.o, level + 1, TRUE)
                                \o <<10>> \o Indent(level) \o <<125>>

\* serde_json::to_string_pretty
ToStringPretty(v) == PrettyValue(v, 0)

(***************************************************************************)
(* Inputs of the model.                                                    *)
(***************************************************************************)
\* bytes of an access token: tab, line feed, unit separator, space, 'A', DEL
TokenBytes == {9, 10, 31, 32, 65, 127}
Tokens == SeqsUpTo(TokenBytes, MaxTokenLen)

\* "laptop", the search text of main
Laptop == <<108, 97, 112, 116, 111, 112>>
\* search texts a caller of the library passes: "laptop", "a", "a b", ""
\* (each is passed as a JSON string, which the query-string encoder of send() accepts)
SearchTexts == {Laptop, <<97>>, <<97, 32, 98>>, << >>}

\* bytes of the bodies enumerated exhaustively:  { } [ ] " : , 0 1 a b space
JsonBytes == {123, 125, 91, 93, 34, 58, 44, 48, 49, 97, 98, 32}
\* longer bodies, well formed and not
SampleBodies ==
    { <<123, 34, 97, 34, 58, 49, 125>>,                                   \* {"a":1}
      <<123, 34, 97, 34, 58, 49>>,                                        \* {"a":1     (truncated)
      <<110, 111, 116, 32, 106, 115, 111, 110>>,                          \* not json
      <<34, 110, 111, 116, 32, 106, 115, 111, 110, 34>>,                  \* "not json"
      <<32, 123, 32, 34, 97, 34, 32, 58, 32, 91, 32, 49, 32, 44, 32, 49, 48, 32, 93, 32, 44,
        32, 34, 98, 34, 32, 58, 32, 34, 97, 32, 98, 34, 32, 125, 32>>,    \*  { "a" : [ 1 , 10 ] , "b" : "a b" } 
      <<123, 34, 98, 34, 58, 49, 44, 34, 97, 34, 58, 123, 125, 125>>,     \* {"b":1,"a":{}}
      <<123, 34, 97, 34, 58, 49, 44, 34, 97, 34, 58, 48, 125>>,           \* {"a":1,"a":0}
      <<91, 49, 44, 91, 93, 44, 123, 34, 97, 34, 58, 34, 98, 34, 125, 93>>,  \* [1,[],{"a":"b"}]
      <<91, 116, 114, 117, 101, 44, 110, 117, 108, 108, 93>>,             \* [true,null]
      <<91, 49, 44, 93>>,                                                 \* [1,]
      <<123, 34, 97, 34, 58, 49, 44, 125>>,                               \* {"a":1,}
      <<123, 34, 97, 34, 32, 49, 125>>,                                   \* {"a" 1}
      <<49, 32, 49>> }                                                    \* 1 1
Bodies == SeqsUpTo(JsonBytes, MaxBodyLen) \cup SampleBodies
\* bodies of the responses that are not a success
ErrorBodies == { <<123, 34, 97, 34, 58, 49, 125>>, <<110, 111, 116, 32, 106, 115, 111, 110>> }

\* HTTP statuses the transport answers with
Statuses == {200, 204, 299, 301, 404, 500}

(***************************************************************************)
(* reqwest / http helpers, as the code calls them.                         *)
(***************************************************************************)
\* http::HeaderValue: the bytes a header value may hold
IsValidHeaderByte(b) == (b >= 32 /\ b # 127) \/ b = 9

\* header::HeaderValue::from_str (ebay_api.rs line 118)
HeaderValueFromStr(s) ==
    IF \A i \in 1..Len(s) : IsValidHeaderByte(s[i])
    THEN [ok |-> TRUE, value |-> s]
    ELSE [ok |-> FALSE, value |-> << >>]

\* HeaderMap::new and HeaderMap::insert: a name has one value
HeaderMapNew == [n \in {} |-> << >>]
HeaderInsert(h, name, value) ==
    [n \in DOMAIN h \cup {name} |-> IF n = name THEN value ELSE h[n]]

\* IsSuccess that takes a redirection for a success
IsSuccessOrRedirect(status) == status >= 200 /\ status < 400

\* StatusCode::is_success (ebay_api.rs line 148)
IsSuccess(status) == status >= 200 /\ status < 300

\* StatusCode::canonical_reason, for the statuses of the model
CanonicalReason(status) ==
    CASE status = 200 -> <<79, 75>>                                                   \* OK
      [] status = 204 -> <<78, 111, 32, 67, 111, 110, 116, 101, 110, 116>>            \* No Content
      [] status = 301 -> <<77, 111, 118, 101, 100, 32, 80, 101, 114, 109, 97, 110, 101, 110,
                           116, 108, 121>>                                            \* Moved Permanently
      [] status = 404 -> <<78, 111, 116, 32, 70, 111, 117, 110, 100>>                 \* Not Found
      [] status = 500 -> <<73, 110, 116, 101, 114, 110, 97, 108, 32, 83, 101, 114, 118, 101,
                           114, 32, 69, 114, 114, 111, 114>>                          \* Internal Server Error
      [] OTHER        -> <<60, 117, 110, 107, 110, 111, 119, 110, 32, 115, 116, 97, 116, 117,
                           115, 32, 99, 111, 100, 101, 62>>                           \* <unknown status code>

\* Display of StatusCode: the number, a space, the reason
StatusDisplay(status) == Dec(status) \o <<32>> \o CanonicalReason(status)

(***************************************************************************)
(* SearchConfig::new                                                       *)
(***************************************************************************)
\* "application/json"
ApplicationJson == <<97, 112, 112, 108, 105, 99, 97, 116, 105, 111, 110, 47, 106, 115, 111, 110>>
\* "Bearer "
Bearer == <<66, 101, 97, 114, 101, 114, 32>>
\* the keys "q" and "limit" of search_parameters
KeyQ == <<113>>
KeyLimit == <<108, 105, 109, 105, 116>>
\* json!("5")
LimitValue == JString(<<53>>)

\* AuthHeaderValue without the space after Bearer
AuthHeaderValueNoSpace(access_token) == <<66, 101, 97, 114, 101, 114>> \o access_token
\* AuthHeaderValue with a line feed after the token
AuthHeaderValueNewline(access_token) == Bearer \o access_token \o <<10>>

\* format!("Bearer {}", access_token)
AuthHeaderValue(access_token) == Bearer \o access_token

\* SearchParameters with the limit inserted under the key q
SearchParametersSameKey(query) ==
    MapInsert(MapInsert(<< >>, KeyQ, query), KeyQ, LimitValue)

\* search_parameters: q, then limit, inserted into an empty map
SearchParameters(query) ==
    MapInsert(MapInsert(<< >>, KeyQ, query), KeyLimit, LimitValue)

\* the headers of the configuration, given the authorization value
ConfigHeaders(auth) ==
    HeaderInsert(HeaderInsert(HeaderMapNew, "content-type", ApplicationJson),
                 "authorization", auth)

\* SearchConfig::new: ok is FALSE when unwrap() panics on the rejected header value
SearchConfigNew(query, access_token) ==
    LET auth == HeaderValueFromStr(AuthHeaderValue(access_token))
    IN  IF ~auth.ok
        THEN [ok |-> FALSE,
              value |-> [app_id |-> "", cert_id |-> "", search_url |-> "",
                         headers |-> HeaderMapNew, search_parameters |-> << >>]]
        ELSE [ok |-> TRUE,
              value |-> [app_id |-> "AdamCarr-mtgcardf-SBX-3ac219c73-c36c6538",
                         cert_id |-> "SBX-ac219c739b47-816b-43f8-964f-6b1a",
                         search_url |-> "https://api.sandbox.ebay.com/buy/browse/v1/item_summary/search",
                         headers |-> ConfigHeaders(auth.value),
                         search_parameters |-> SearchParameters(query)]]

(***************************************************************************)
(* State.                                                                  *)
(***************************************************************************)
VARIABLES
    pc,        \* where the process is
    file,      \* config.toml as main finds it
    api_keys,  \* the access token: api_keys.api_keys.ebay in main
    query,     \* the search text passed to SearchConfig::new
    config,    \* the configurations the caller holds: [value, live, uses]
    built,     \* history: each configuration as SearchConfig::new returned it
    arg,       \* post_query's parameter config, until its fields are moved out
    answers,   \* the transport: the answer it gave to each request seen so far
    sent,      \* the requests issued by send(), in order (redirects inside reqwest are not counted)
    response,  \* post_query's local response
    body,      \* post_query's local body
    result,    \* what post_query returned to its caller
    stdout,    \* the bytes written to standard output
    stderr,    \* the messages written to standard error
    panic,     \* the message of the panic that ended the process
    mark,      \* library caller: length of stdout when its current call began
    outs       \* library caller: output and return value of each finished call

vars == <<pc, file, api_keys, query, config, built, arg, answers, sent, response, body,
          result, stdout, stderr, panic, mark, outs>>

\* number of calls the library caller makes with equal configurations
Runs == 2

NoToken == <<0>>
NoConfig == [app_id |-> "", cert_id |-> "", search_url |-> "",
             headers |-> HeaderMapNew, search_parameters |-> << >>]
NoResponse == [kind |-> "none", status |-> 0, text_ok |-> FALSE, body |-> << >>]
NoBody == <<0>>
NoFile == [kind |-> "none", ebay |-> << >>]

\* config.toml: absent, not TOML, TOML without api_keys.ebay, or holding a token
ConfigFiles ==
    { [kind |-> k, ebay |-> << >>] : k \in {"missing", "malformed", "no_field"} }
    \cup { [kind |-> "ok", ebay |-> tok] : tok \in Tokens }

\* what the transport can answer a request with: no response at all, or a status and a
\* body that arrives whole or fails while it is read
Answers ==
    { [kind |-> "error", status |-> 0, text_ok |-> FALSE, body |-> << >>] }
    \cup { [kind |-> "response", status |-> s, text_ok |-> FALSE, body |-> << >>] : s \in Statuses }
    \cup { [kind |-> "response", status |-> s, text_ok |-> TRUE, body |-> b] :
             s \in {x \in Statuses : IsSuccess(x)}, b \in Bodies }
    \cup { [kind |-> "response", status |-> s, text_ok |-> TRUE, body |-> b] :
             s \in {x \in Statuses : ~IsSuccess(x)}, b \in ErrorBodies }

\* the answers a library caller's stub gives: as Answers, with the sample bodies
StubAnswers == { a \in Answers : a.body \in SampleBodies \cup {<< >>} }

(***************************************************************************)
(* read_config and main (main.rs)                                          *)
(***************************************************************************)
\* ReadConfig that takes an absent api_keys.ebay for an empty token
ReadConfigDefault(f) ==
    CASE f.kind = "missing"   -> [ok |-> FALSE, err |-> "io", ebay |-> << >>]
      [] f.kind = "malformed" -> [ok |-> FALSE, err |-> "toml syntax", ebay |-> << >>]
      [] OTHER                -> [ok |-> TRUE, err |-> "", ebay |-> f.ebay]

\* read_config: read_to_string fails on a missing file, toml::from_str on the rest
ReadConfig(f) ==
    CASE f.kind = "missing"   -> [ok |-> FALSE, err |-> "io", ebay |-> << >>]
      [] f.kind = "malformed" -> [ok |-> FALSE, err |-> "toml syntax", ebay |-> << >>]
      [] f.kind = "no_field"  -> [ok |-> FALSE, err |-> "toml missing field", ebay |-> << >>]
      [] OTHER                -> [ok |-> TRUE, err |-> "", ebay |-> f.ebay]

Init ==
    /\ pc = "main_read"
    /\ file \in ConfigFiles
    /\ api_keys = NoToken
    /\ query = JNull
    /\ config = << >>
    /\ built = << >>
    /\ arg = NoConfig
    /\ answers = << >>
    /\ sent = << >>
    /\ response = NoResponse
    /\ body = NoBody
    /\ result = "None"
    /\ stdout = << >>
    /\ stderr = << >>
    /\ panic = ""
    /\ mark = 0
    /\ outs = << >>

\* main.rs lines 28-34, Ok arm
MainReadConfigOk ==
    /\ pc = "main_read"
    /\ ReadConfig(file).ok
    /\ api_keys' = ReadConfig(file).ebay
    /\ pc' = "main_new"
    /\ UNCHANGED <<file, query, config, built, arg, answers, sent, response, body, result,
                   stdout, stderr, panic, mark, outs>>

\* main.rs lines 28-34, Err arm: eprintln! and return
MainReadConfigErr ==
    /\ pc = "main_read"
    /\ ~ReadConfig(file).ok
    /\ stderr' = Append(stderr, [text |-> "Error reading configuration: ", e |-> ReadConfig(file).err])
    /\ pc' = "exit"
    /\ UNCHANGED <<file, api_keys, query, config, built, arg, answers, sent, response, body,
                   result, stdout, panic, mark, outs>>

\* a caller stores the configuration SearchConfig::new returned, or unwinds with its panic
NewConfig(q, next) ==
    LET r == SearchConfigNew(q, api_keys)
    IN  IF r.ok
        THEN /\ config' = Append(config, [value |-> r.value, live |-> TRUE, uses |-> 0])
             /\ built' = Append(built, r.value)
             /\ pc' = next
             /\ UNCHANGED panic
        ELSE /\ panic' = "called Result::unwrap() on an Err value: InvalidHeaderValue"
             /\ pc' = "panicked"
             /\ UNCHANGED <<config, built>>

\* main.rs lines 38-41
MainNew ==
    /\ pc = "main_new"
    /\ query' = JString(Laptop)
    /\ NewConfig(JString(Laptop), "main_call")
    /\ UNCHANGED <<file, api_keys, arg, answers, sent, response, body, result, stdout,
                   stderr, mark, outs>>

\* a caller passes its i-th configuration to post_query: the value is moved into the call
CallPostQuery(i) ==
    /\ config[i].live
    /\ arg' = config[i].value
    /\ config' = [config EXCEPT ![i] = [@ EXCEPT !.live = FALSE, !.uses = @ + 1]]
    /\ response' = NoResponse
    /\ body' = NoBody
    /\ result' = "None"
    /\ pc' = "pq_send"

\* main.rs line 44
MainPostQuery ==
    /\ pc = "main_call"
    /\ CallPostQuery(1)
    /\ UNCHANGED <<file, api_keys, query, built, answers, sent, stdout, stderr, panic, mark, outs>>

\* main.rs lines 45-48: Ok ends main, Err panics
MainMatchResult ==
    /\ pc = "pq_returned"
    /\ IF result = "Ok"
       THEN pc' = "exit" /\ UNCHANGED panic
       ELSE pc' = "panicked" /\ panic' = "Problem with the request"
    /\ UNCHANGED <<file, api_keys, query, config, built, arg, answers, sent, response, body,
                   result, stdout, stderr, mark, outs>>

(***************************************************************************)
(* post_query (ebay_api.rs lines 138-161)                                  *)
(***************************************************************************)
\* BuildRequest without the query parameters
BuildRequestNoQuery(cfg) ==
    [method |-> "GET", url |-> cfg.search_url, headers |-> cfg.headers, query |-> << >>]
\* BuildRequest with a header that counts the requests of the process so far
BuildRequestCounted(cfg) ==
    [method |-> "GET", url |-> cfg.search_url,
     headers |-> HeaderInsert(cfg.headers, "x-request-count", Dec(Len(sent))),
     query |-> cfg.search_parameters]

\* client.get(config.search_url).headers(config.headers).query(&config.search_parameters)
BuildRequest(cfg) ==
    [method |-> "GET", url |-> cfg.search_url, headers |-> cfg.headers,
     query |-> cfg.search_parameters]

\* "Request failed with status code: "
RequestFailedPrefix ==
    <<82, 101, 113, 117, 101, 115, 116, 32, 102, 97, 105, 108, 101, 100, 32, 119, 105, 116,
      104, 32, 115, 116, 97, 116, 117, 115, 32, 99, 111, 100, 101, 58, 32>>
\* "Response body: "
ResponseBodyPrefix ==
    <<82, 101, 115, 112, 111, 110, 115, 101, 32, 98, 111, 100, 121, 58, 32>>

\* println!("Request failed with status code: {}", response.status())
FailureLine(status) == RequestFailedPrefix \o StatusDisplay(status) \o <<10>>
\* println!("Response body: {}", pretty_json)
SuccessLine(pretty_json) == ResponseBodyPrefix \o pretty_json \o <<10>>

\* the transport's answer to req: any answer of the set to a request not seen before, the
\* answer it gave before to one seen before
TransportAnswers(req, all) ==
    IF req \in DOMAIN answers THEN {answers[req]} ELSE all

\* SendTransportError that sends the request again
SendTransportErrorRetry ==
    /\ pc' = "pq_send"
    /\ UNCHANGED <<arg, result, response, stdout>>

\* line 146, send().await?: the transport error is returned to the caller
SendTransportError ==
    /\ result' = "Err"
    /\ pc' = "pq_returned"
    /\ arg' = NoConfig
    /\ UNCHANGED <<response, stdout>>

\* lines 141-148 and 156-160: the request is built and sent; a transport error returns Err;
\* a status that is no success is printed and Ok returned; a success goes on to the body
PostQuerySend(all) ==
    /\ pc = "pq_send"
    /\ LET req == BuildRequest(arg)
       IN  \E a \in TransportAnswers(req, all) :
             /\ sent' = Append(sent, req)
             /\ answers' = (req :> a) @@ answers
             /\ IF a.kind = "error"
                THEN SendTransportError
                ELSE /\ arg' = NoConfig
                     /\ response' = a
                     /\ IF IsSuccess(a.status)
                        THEN /\ pc' = "pq_text"
                             /\ UNCHANGED <<result, stdout>>
                        ELSE /\ stdout' = stdout \o FailureLine(a.status)
                             /\ result' = "Ok"
                             /\ pc' = "pq_returned"
    /\ UNCHANGED <<file, api_keys, query, config, built, body, stderr, panic, mark, outs>>

\* lines 149-155 and 160: the body is read (an error returns Err), parsed (expect panics on
\* an error), printed with indentation, and Ok returned
PostQueryText ==
    /\ pc = "pq_text"
    /\ IF ~response.text_ok
       THEN /\ result' = "Err"
            /\ pc' = "pq_returned"
            /\ UNCHANGED <<body, stdout, panic>>
       ELSE /\ body' = response.body
            /\ LET parsed_json == FromStr(response.body)
               IN  IF ~parsed_json.ok
                   THEN /\ panic' = "failed to parse json"
                        /\ pc' = "panicked"
                        /\ UNCHANGED <<result, stdout>>
                   ELSE /\ stdout' = stdout \o SuccessLine(ToStringPretty(parsed_json.v))
                        /\ result' = "Ok"
                        /\ pc' = "pq_returned"
                        /\ UNCHANGED panic
    /\ UNCHANGED <<file, api_keys, query, config, built, arg, answers, sent, response, stderr,
                   mark, outs>>

Next ==
    \/ MainReadConfigOk
    \/ MainReadConfigErr
    \/ MainNew
    \/ MainPostQuery
    \/ PostQuerySend(Answers)
    \/ PostQueryText
    \/ MainMatchResult

Spec == Init /\ [][Next]_vars

(***************************************************************************)
(* A caller of the library, as in the module's example (ebay_api.rs lines   *)
(* 12-31): it builds Runs configurations from one search text and one       *)
(* token, then calls post_query with each in turn against a transport that  *)
(* answers the same request the same way, and keeps what each call wrote    *)
(* and returned.                                                            *)
(***************************************************************************)
InitLib ==
    /\ pc = "lib_new"
    /\ file = NoFile
    /\ api_keys \in Tokens
    /\ query \in {JString(s) : s \in SearchTexts}
    /\ config = << >>
    /\ built = << >>
    /\ arg = NoConfig
    /\ answers = << >>
    /\ sent = << >>
    /\ response = NoResponse
    /\ body = NoBody
    /\ result = "None"
    /\ stdout = << >>
    /\ stderr = << >>
    /\ panic = ""
    /\ mark = 0
    /\ outs = << >>

\* let config = SearchConfig::new(search_query, access_token), once for each call to come
LibNew ==
    /\ pc = "lib_new"
    /\ NewConfig(query, IF Len(config) + 1 = Runs THEN "lib_call" ELSE "lib_new")
    /\ UNCHANGED <<file, api_keys, query, arg, answers, sent, response, body, result, stdout,
                   stderr, mark, outs>>

\* post_query(config), with the next configuration
LibPostQuery ==
    /\ pc = "lib_call"
    /\ CallPostQuery(Len(outs) + 1)
    /\ mark' = Len(stdout)
    /\ UNCHANGED <<file, api_keys, query, built, answers, sent, stdout, stderr, panic, outs>>

\* the call returned: what it wrote and what it returned are kept
LibCollect ==
    /\ pc = "pq_returned"
    /\ outs' = Append(outs, [out |-> Drop(stdout, mark + 1), ret |-> result])
    /\ pc' = IF Len(outs) + 1 = Runs THEN "exit" ELSE "lib_call"
    /\ UNCHANGED <<file, api_keys, query, config, built, arg, answers, sent, response, body,
                   result, stdout, stderr, panic, mark>>

NextLib ==
    \/ LibNew
    \/ LibPostQuery
    \/ PostQuerySend(StubAnswers)
    \/ PostQueryText
    \/ LibCollect

SpecLib == InitLib /\ [][NextLib]_vars

(***************************************************************************)
(* Properties.                                                             *)
(***************************************************************************)
\* the value under key k of a map, JNull when the key is absent
RECURSIVE MapGet(_, _)
MapGet(o, k) ==
    IF o = << >> THEN JNull ELSE IF o[1].k = k THEN o[1].v ELSE MapGet(Tail(o), k)

MapKeys(o) == {o[i].k : i \in 1..Len(o)}

\* a byte that a header value may not hold: a control character other than tab, or DEL
HasRejectedByte(tok) ==
    \E i \in 1..Len(tok) : (tok[i] < 32 /\ tok[i] # 9) \/ tok[i] = 127

\* the response of the current call has a status outside 200..299
NonSuccessResponse ==
    response.kind = "response" /\ (response.status < 200 \/ response.status > 299)

\* the current call read a body from a response with a status in 200..299
SuccessBodyRead ==
    /\ response.kind = "response"
    /\ response.status >= 200 /\ response.status <= 299
    /\ body # NoBody

\* C1: every configuration SearchConfig::new returns has exactly the headers content-type
\* (application/json) and authorization, and exactly the parameters q (the search text
\* passed in) and limit (the text of the number 5); with a non-empty search text and a
\* token without rejected bytes, every call of new returns one.
C1_ConfigShape ==
    /\ \A i \in 1..Len(built) :
         /\ DOMAIN built[i].headers = {"content-type", "authorization"}
         /\ built[i].headers["content-type"]
              = <<97, 112, 112, 108, 105, 99, 97, 116, 105, 111, 110, 47, 106, 115, 111, 110>>
         /\ Len(built[i].search_parameters) = 2
         /\ MapKeys(built[i].search_parameters) = {<<113>>, <<108, 105, 109, 105, 116>>}
         /\ MapGet(built[i].search_parameters, <<113>>) = query
         /\ MapGet(built[i].search_parameters, <<108, 105, 109, 105, 116>>) = JString(Dec(5))
    /\ (query.s # << >> /\ ~HasRejectedByte(api_keys) /\ pc # "lib_new") => Len(built) = Runs

\* C1 witness: a configuration built from the search text "a b" and the token "A "
C1_Witness ==
    /\ Len(built) = Runs
    /\ query = JString(<<97, 32, 98>>)
    /\ api_keys = <<65, 32>>

\* C2: the authorization header of every configuration built is "Bearer " followed by
\* exactly the token of config.toml.
C2_BearerToken ==
    \A i \in 1..Len(built) :
        built[i].headers["authorization"] = <<66, 101, 97, 114, 101, 114, 32>> \o file.ebay

\* C2 witness: a configuration built from the token tab, space
C2_Witness == Len(built) = 1 /\ file.ebay = <<9, 32>>

\* C3: after a response whose status is outside 2xx, post_query returns Ok, nothing
\* panics, standard output holds the status number, and the body was not read.
C3_NonSuccessIsOk ==
    NonSuccessResponse =>
        /\ result = "Ok"
        /\ pc \in {"pq_returned", "exit"}
        /\ panic = ""
        /\ Contains(stdout, Dec(response.status))
        /\ body = NoBody

\* C3 witness: a 404 was answered, its line printed, and main ended
C3_Witness ==
    /\ response.kind = "response" /\ response.status = 404
    /\ pc = "exit"
    /\ Contains(stdout, <<52, 48, 52>>)

\* what post_query prints after "Response body: "
PrintedJson == Drop(stdout, Len(ResponseBodyPrefix) + 1)

\* C4, as amended: after a 2xx response with a well-formed JSON body, standard output is
\* "Response body: " followed by pretty-printed JSON (the text to_string_pretty gives for
\* its own value, and a line feed) whose value equals the value of the body.
C4_PrefixedPrettyJson ==
    (SuccessBodyRead /\ FromStr(body).ok) =>
        /\ pc \in {"pq_returned", "exit"}
        /\ StartsWith(stdout,
                      <<82, 101, 115, 112, 111, 110, 115, 101, 32, 98, 111, 100, 121, 58, 32>>)
        /\ FromStr(PrintedJson).ok
        /\ FromStr(PrintedJson).v = FromStr(body).v
        /\ PrintedJson = ToStringPretty(FromStr(PrintedJson).v) \o <<10>>

\* C4 witness: the body [1,[],{"a":"b"}] was answered with status 200 and printed
C4_Witness ==
    /\ SuccessBodyRead
    /\ body = <<91, 49, 44, 91, 93, 44, 123, 34, 97, 34, 58, 34, 98, 34, 125, 93>>
    /\ pc = "exit"
    /\ stdout # << >>

\* C4 as stated: the console output itself is JSON whose value is the value of the body.
C4_OutputIsJson ==
    (SuccessBodyRead /\ FromStr(body).ok) =>
        /\ FromStr(stdout).ok
        /\ FromStr(stdout).v = FromStr(body).v

\* C5 as stated: after a 2xx response whose body is not JSON, post_query returns an error
\* to its caller and the process does not panic inside it.
C5_DecodeErrorReturned ==
    (SuccessBodyRead /\ ~FromStr(body).ok) =>
        /\ result = "Err"
        /\ panic # "failed to parse json"

\* C6: when reading the configuration fails, main prints the error and ends with no
\* configuration built and no request issued; a request is issued only after the
\* configuration was read and SearchConfig::new returned.
C6_NoRequestWithoutConfig ==
    /\ (file.kind # "ok" /\ pc # "main_read") =>
         /\ pc = "exit"
         /\ Len(stderr) = 1
         /\ stderr[1].text = "Error reading configuration: "
         /\ panic = ""
         /\ built = << >> /\ config = << >>
         /\ sent = << >>
    /\ sent # << >> =>
         /\ file.kind = "ok"
         /\ api_keys = file.ebay
         /\ Len(built) = 1

\* C6 witness: config.toml has no api_keys.ebay, and main has ended with its message
C6_Witness == file.kind = "no_field" /\ pc = "exit" /\ Len(stderr) = 1

C8_Idempotent ==
    \A i, j \in 1..Len(outs) :
        built[i] = built[j] => (outs[i].out = outs[j].out /\ outs[i].ret = outs[j].ret)

\* C8 witness: all the calls are done, each with a printed body
C8_Witness ==
    /\ Len(outs) = Runs
    /\ Len(sent) = Runs
    /\ outs[1].ret = "Ok"
    /\ StartsWith(outs[Runs].out, ResponseBodyPrefix)

\* SearchConfig::new panicked: the process ended before every configuration was built
NewFailed == pc = "panicked" /\ Len(built) < Runs

\* C9: SearchConfig::new fails only for a token with a byte a header value may not hold,
\* and then no request has been issued; for every other token, and every query, each
\* call of new returns a configuration.
C9_NewFailsOnlyOnBadToken ==
    /\ NewFailed => (HasRejectedByte(api_keys) /\ sent = << >>)
    /\ (~HasRejectedByte(api_keys) /\ pc # "lib_new") => Len(built) = Runs

\* C9 witness: the token "A", line feed made new panic
C9_Witness == NewFailed /\ api_keys = <<65, 10>>

\* C10: a configuration stays as SearchConfig::new returned it, the request is made of its
\* URL, headers and parameters, and it is passed to post_query exactly once: once main is
\* past the call it has been used one time and main holds it no more.
C10_ConfigImmutableUsedOnce ==
    /\ Len(config) = Len(built)
    /\ \A i \in 1..Len(config) :
         /\ config[i].value = built[i]
         /\ config[i].uses <= 1
         /\ config[i].uses = 1 => ~config[i].live
         /\ pc \notin {"main_read", "main_new", "main_call"} => config[i].uses = 1
    /\ Len(sent) <= Len(built)
    /\ \A k \in 1..Len(sent) :
         /\ sent[k].url = built[k].search_url
         /\ sent[k].headers = built[k].headers
         /\ sent[k].query = built[k].search_parameters

\* C10 witness: main ended after its configuration was sent as a request
C10_Witness ==
    /\ pc = "exit"
    /\ Len(sent) = 1
    /\ Len(config) = 1 /\ config[1].uses = 1

====
